---- MODULE Spec2Model ----
(***************************************************************************)
(* Model of configs/examples/temporal-worker-python/worker.py.             *)
(*                                                                         *)
(* The worker registers one workflow, ProcessEvent, whose run method       *)
(* executes one activity, call_external_service, under                     *)
(*   start_to_close_timeout = 30 s  and  RetryPolicy(maximum_attempts=3).  *)
(* The activity decodes the payload (json.loads), re-serialises its data   *)
(* field (json.dumps), posts it through fiso-link, and raises when the     *)
(* status code is >= 400.  Retrying, back-off and the time-out are what    *)
(* workflow.execute_activity does with these two arguments: the time-out   *)
(* bounds every attempt separately, every exception raised by the activity *)
(* is retryable (no non-retryable error type is configured), the retry     *)
(* interval is 1 s doubled after every attempt.                            *)
(*                                                                         *)
(* Time is in seconds.  JSON text is a sequence of tokens.                 *)
(***************************************************************************)
EXTENDS Integers, Sequences, FiniteSets, TLC

(***************************************************************************)
(* JSON text and JSON values (json.loads / json.dumps, worker.py:28-29)    *)
(***************************************************************************)
NumTok == {"0", "1"}
StrTok == {"type", "data", "a", "x"}

\* A JSON value: t is its type, s its scalar token, kids its children as
\* <<key, value>> pairs in insertion order (the key is "" in an array).
Null == [t |-> "null", s |-> "null", kids |-> <<>>]
Scalar(ty, tok) == [t |-> ty, s |-> tok, kids |-> <<>>]
Arr(items) == [t |-> "arr", s |-> "", kids |-> items]
Obj(members) == [t |-> "obj", s |-> "", kids |-> members]
EmptyObj == Obj(<<>>)

RECURSIVE SkipWs(_)
SkipWs(s) == IF s # <<>> /\ Head(s) = " " THEN SkipWs(Tail(s)) ELSE s

ParseFail == [ok |-> FALSE, val |-> Null, rest |-> <<>>]
ParseOk(v, r) == [ok |-> TRUE, val |-> v, rest |-> r]

HasKey(members, k) == \E i \in 1..Len(members) : members[i][1] = k
KeyIndex(members, k) == CHOOSE i \in 1..Len(members) : members[i][1] = k

\* dict[k] = v : a repeated key keeps its position and takes the new value
Put(members, k, v) ==
    IF HasKey(members, k)
    THEN [members EXCEPT ![KeyIndex(members, k)] = <<k, v>>]
    ELSE Append(members, <<k, v>>)

RECURSIVE ParseValue(_), ParseMembers(_, _), ParseElements(_, _)
ParseValue(s0) ==
    LET s == SkipWs(s0) IN
    IF s = <<>> THEN ParseFail
    ELSE LET h == Head(s)
             u == SkipWs(Tail(s))
         IN CASE h = "null" -> ParseOk(Null, Tail(s))
              [] h \in NumTok -> ParseOk(Scalar("num", h), Tail(s))
              [] h \in StrTok -> ParseOk(Scalar("str", h), Tail(s))
              [] h = "{" -> IF u # <<>> /\ Head(u) = "}"
                            THEN ParseOk(EmptyObj, Tail(u))
                            ELSE ParseMembers(u, <<>>)
              [] h = "[" -> IF u # <<>> /\ Head(u) = "]"
                            THEN ParseOk(Arr(<<>>), Tail(u))
                            ELSE ParseElements(u, <<>>)
              [] OTHER -> ParseFail

\* s starts (after whitespace) at a member  "key" : value
ParseMembers(s, acc) ==
    IF s = <<>> \/ Head(s) \notin StrTok THEN ParseFail
    ELSE LET k == Head(s)
             c == SkipWs(Tail(s))
         IN IF c = <<>> \/ Head(c) # ":" THEN ParseFail
            ELSE LET p == ParseValue(Tail(c))
                     e == SkipWs(p.rest)
                 IN IF ~p.ok \/ e = <<>> THEN ParseFail
                    ELSE IF Head(e) = "}"
                         THEN ParseOk(Obj(Put(acc, k, p.val)), Tail(e))
                    ELSE IF Head(e) = ","
                         THEN ParseMembers(SkipWs(Tail(e)), Put(acc, k, p.val))
                    ELSE ParseFail

\* s starts at an element of an array
ParseElements(s, acc) ==
    LET p == ParseValue(s)
        e == SkipWs(p.rest)
    IN IF ~p.ok \/ e = <<>> THEN ParseFail
       ELSE IF Head(e) = "]"
            THEN ParseOk(Arr(Append(acc, <<"", p.val>>)), Tail(e))
       ELSE IF Head(e) = ","
            THEN ParseElements(Tail(e), Append(acc, <<"", p.val>>))
       ELSE ParseFail

\* json.loads(input_data): one value, nothing but whitespace after it
Loads(s) ==
    LET p == ParseValue(s) IN
    IF p.ok /\ SkipWs(p.rest) = <<>>
    THEN [ok |-> TRUE, val |-> p.val]
    ELSE [ok |-> FALSE, val |-> Null]

\* json.dumps(value): separators ", " and ": ", members in insertion order
RECURSIVE Dumps(_), DumpKids(_, _)
Dumps(v) ==
    CASE v.t = "arr" -> <<"[">> \o DumpKids(v.kids, FALSE) \o <<"]">>
      [] v.t = "obj" -> <<"{">> \o DumpKids(v.kids, TRUE) \o <<"}">>
      [] OTHER -> <<v.s>>

DumpKids(kids, keyed) ==
    IF kids = <<>> THEN <<>>
    ELSE LET one == (IF keyed THEN <<kids[1][1], ":", " ">> ELSE <<>>)
                        \o Dumps(kids[1][2])
         IN IF Len(kids) = 1 THEN one
            ELSE one \o <<",", " ">> \o DumpKids(Tail(kids), keyed)

\* variant: cloud_event.get("data"), without the default
GetDataNoDefault(env) ==
    IF HasKey(env.kids, "data") THEN env.kids[KeyIndex(env.kids, "data")][2]
    ELSE Null

\* cloud_event.get("data", {}) on a dict
GetData(env) ==
    IF HasKey(env.kids, "data") THEN env.kids[KeyIndex(env.kids, "data")][2]
    ELSE EmptyObj

(***************************************************************************)
(* Inputs: raw payloads, downstream responses, call latencies              *)
(***************************************************************************)
\* {"type":"x","data":{"a":1}}
PayloadData == <<"{", "type", ":", "x", ",", "data", ":", "{", "a", ":", "1", "}", "}">>
\* {"type":"x"}
PayloadNoData == <<"{", "type", ":", "x", "}">>
\* { "type": "x", "data": null }
PayloadNullData == <<"{", " ", "type", ":", " ", "x", ",", " ", "data", ":", " ", "null", " ", "}">>
\* {"data":[1,{"a":"x"},[]]}
PayloadNested == <<"{", "data", ":", "[", "1", ",", "{", "a", ":", "x", "}", ",", "[", "]", "]", "}">>
\* {"data":0,"type":"x","data":{"a":1,"a":0}}
PayloadDup == <<"{", "data", ":", "0", ",", "type", ":", "x", ",", "data", ":",
                "{", "a", ":", "1", ",", "a", ":", "0", "}", "}">>
\* {"type":"x"          (truncated)
PayloadTruncated == <<"{", "type", ":", "x">>
\* {"type":"x",}        (trailing comma)
PayloadComma == <<"{", "type", ":", "x", ",", "}">>
\* {}}                  (extra data)
PayloadExtra == <<"{", "}", "}">>
\* [1]                  (well-formed, not a mapping)
PayloadArray == <<"[", "1", "]">>
\* "x"                  (well-formed, not a mapping)
PayloadString == <<"x">>

ValidPayloads == {PayloadData, PayloadNoData, PayloadNullData, PayloadNested, PayloadDup}
MalformedPayloads == {PayloadTruncated, PayloadComma, PayloadExtra, <<>>}
NonMappingPayloads == {PayloadArray, PayloadString}
Payloads == ValidPayloads \cup MalformedPayloads \cup NonMappingPayloads

\* json.loads of every payload
Decoded == [p \in Payloads |-> Loads(p)]

Statuses == {200, 399, 400, 500}
Bodies == {"ok", "err"}
TransportCauses == {"ConnectError"}

StartToCloseTimeout == 30
MaximumAttempts == 3
InitialInterval == 1
BackoffCoefficient == 2

LatencyStep == 10
\* how long a call that returns may take: less than the attempt's time-out
Latencies == {d \in 0..(StartToCloseTimeout - 1) :
                 d % LatencyStep = 0 \/ d = StartToCloseTimeout - 1}

Runs == {"r1", "r2"}

LinkUrl == "http://localhost:3500/link/echo"
JsonHeaders == <<"Content-Type", "application/json">>

(***************************************************************************)
(* State                                                                   *)
(***************************************************************************)
VARIABLES
    payload,    \* run -> the raw input_data of the run
    pc,         \* run -> "idle" | "scheduled" | "calling" | "backoff" | "done"
    attempt,    \* run -> number of the current attempt, from 1
    elapsed,    \* run -> seconds since the run started
    history,    \* run -> the outcome of every finished attempt, in order
    posted,     \* run -> the requests sent to fiso-link, in order
    responses,  \* run -> the responses received by attempts, in order
    inflight,   \* run -> number of requests sent and not yet ended
    result      \* run -> the result of the run, NoResult until it ends

vars == <<payload, pc, attempt, elapsed, history, posted, responses, inflight, result>>

NoOutcome == [kind |-> "None", status |-> 0, body |-> "", at |-> 0]
NoResult == [kind |-> "None", value |-> "", detail |-> NoOutcome]

Outcome(k, st, b) == [kind |-> k, status |-> st, body |-> b, at |-> 0]

\* variant: the boundary status 400 is taken for a success
ClassifyAbove400(status, body) ==
    IF status > 400 THEN Outcome("HTTPFailure", status, body)
    ELSE Outcome("Success", status, body)

\* lines 39-45: return the body, or raise when status_code >= 400
Classify(status, body) ==
    IF status >= 400 THEN Outcome("HTTPFailure", status, body)
    ELSE Outcome("Success", status, body)

\* retry interval after the failure of attempt n (RetryPolicy defaults)
RECURSIVE Pow(_, _)
Pow(b, e) == IF e = 0 THEN 1 ELSE b * Pow(b, e - 1)
BackoffFor(n) == InitialInterval * Pow(BackoffCoefficient, n - 1)

Init ==
    /\ \E p \in Payloads :
          payload = [r \in Runs |-> IF r = "r1" THEN p ELSE <<>>]
    /\ pc = [r \in Runs |-> IF r = "r1" THEN "scheduled" ELSE "idle"]
    /\ attempt = [r \in Runs |-> 1]
    /\ elapsed = [r \in Runs |-> 0]
    /\ history = [r \in Runs |-> <<>>]
    /\ posted = [r \in Runs |-> <<>>]
    /\ responses = [r \in Runs |-> <<>>]
    /\ inflight = [r \in Runs |-> 0]
    /\ result = [r \in Runs |-> NoResult]

(***************************************************************************)
(* execute_activity: what becomes of the run when an attempt ends after d  *)
(* more seconds with outcome out (worker.py:54-59)                         *)
(***************************************************************************)
\* variants of the retry decision
ShouldRetryOneMore(n, out) == out.kind # "Success" /\ n <= MaximumAttempts
ShouldRetryOffByOne(n, out) == out.kind # "Success" /\ n + 1 < MaximumAttempts
ShouldRetryEvenOnSuccess(n, out) == n < MaximumAttempts
ShouldRetryNotDecode(n, out) ==
    out.kind \notin {"Success", "JSONDecodeError", "AttributeError"} /\ n < MaximumAttempts
ShouldRetryNoTimeout(n, out) ==
    out.kind \notin {"Success", "Timeout"} /\ n < MaximumAttempts

ShouldRetry(n, out) == out.kind # "Success" /\ n < MaximumAttempts

\* variant: a payload that cannot be decoded is reported as a fatal error
ResultOfFatal(out) ==
    IF out.kind = "Success"
    THEN [kind |-> "Completed", value |-> out.body, detail |-> NoOutcome]
    ELSE [kind |-> IF out.kind = "Timeout" THEN "Timeout"
                   ELSE IF out.kind \in {"JSONDecodeError", "AttributeError"}
                   THEN "Fatal" ELSE "RetriesExhausted",
          value |-> "", detail |-> out]

\* variant: only a response with status 200 has its body returned
ResultOfOnly200(out) ==
    IF out.kind = "Success"
    THEN [kind |-> "Completed", value |-> IF out.status = 200 THEN out.body ELSE "",
          detail |-> NoOutcome]
    ELSE [kind |-> IF out.kind = "Timeout" THEN "Timeout" ELSE "RetriesExhausted",
          value |-> "", detail |-> out]

\* variant: a failure that ends 30 s or more into the run is reported as a time-out
ResultOfRunDeadline(out) ==
    IF out.kind = "Success"
    THEN [kind |-> "Completed", value |-> out.body, detail |-> NoOutcome]
    ELSE [kind |-> IF out.kind = "Timeout" \/ out.at >= StartToCloseTimeout
                   THEN "Timeout" ELSE "RetriesExhausted",
          value |-> "", detail |-> out]

ResultOf(out) ==
    IF out.kind = "Success"
    THEN [kind |-> "Completed", value |-> out.body, detail |-> NoOutcome]
    ELSE [kind |-> IF out.kind = "Timeout" THEN "Timeout" ELSE "RetriesExhausted",
          value |-> "", detail |-> out]

\* variant: a failed run reports the failure of its first attempt
ConcludeFirstFailure(r, out, d) ==
    LET o == [out EXCEPT !.at = elapsed[r] + d]
        h == Append(history[r], o)
    IN
    /\ elapsed' = [elapsed EXCEPT ![r] = @ + d]
    /\ history' = [history EXCEPT ![r] = h]
    /\ IF ShouldRetry(attempt[r], o)
       THEN /\ pc' = [pc EXCEPT ![r] = "backoff"]
            /\ result' = result
       ELSE /\ pc' = [pc EXCEPT ![r] = "done"]
            /\ result' = [result EXCEPT
                            ![r] = ResultOf(IF o.kind = "Success" THEN o ELSE h[1])]
    /\ UNCHANGED <<payload, attempt>>

\* variant: every failed attempt is reported as the result of the run
ConcludeReportsEach(r, out, d) ==
    LET o == [out EXCEPT !.at = elapsed[r] + d] IN
    /\ elapsed' = [elapsed EXCEPT ![r] = @ + d]
    /\ history' = [history EXCEPT ![r] = Append(@, o)]
    /\ pc' = [pc EXCEPT ![r] = IF ShouldRetry(attempt[r], o) THEN "backoff" ELSE "done"]
    /\ result' = [result EXCEPT ![r] = ResultOf(o)]
    /\ UNCHANGED <<payload, attempt>>

Conclude(r, out, d) ==
    LET o == [out EXCEPT !.at = elapsed[r] + d] IN
    /\ elapsed' = [elapsed EXCEPT ![r] = @ + d]
    /\ history' = [history EXCEPT ![r] = Append(@, o)]
    /\ IF ShouldRetry(attempt[r], o)
       THEN /\ pc' = [pc EXCEPT ![r] = "backoff"]
            /\ result' = result
       ELSE /\ pc' = [pc EXCEPT ![r] = "done"]
            /\ result' = [result EXCEPT ![r] = ResultOf(o)]
    /\ UNCHANGED <<payload, attempt>>

(***************************************************************************)
(* call_external_service                                                   *)
(***************************************************************************)
Request(data, now) ==
    [url |-> LinkUrl, content |-> data, headers |-> JsonHeaders, at |-> now]

\* variant: a retry posts the response text of the failed attempt before it
StartAttemptPostsLastBody(r) ==
    /\ pc[r] = "scheduled"
    /\ LET ev == Decoded[payload[r]]
           h == history[r]
       IN
       IF ~ev.ok
       THEN /\ Conclude(r, Outcome("JSONDecodeError", 0, ""), 0)
            /\ UNCHANGED <<posted, responses, inflight>>
       ELSE IF ev.val.t # "obj"
       THEN /\ Conclude(r, Outcome("AttributeError", 0, ""), 0)
            /\ UNCHANGED <<posted, responses, inflight>>
       ELSE /\ pc' = [pc EXCEPT ![r] = "calling"]
            /\ posted' = [posted EXCEPT
                            ![r] = Append(@, Request(
                                     IF h # <<>> /\ h[Len(h)].kind = "HTTPFailure"
                                     THEN <<h[Len(h)].body>>
                                     ELSE Dumps(GetData(ev.val)), elapsed[r]))]
            /\ inflight' = [inflight EXCEPT ![r] = @ + 1]
            /\ UNCHANGED <<payload, attempt, elapsed, history, responses, result>>

\* variant: an attempt that would start 30 s or more into the run times the
\* run out instead of calling
StartAttemptRunDeadline(r) ==
    /\ pc[r] = "scheduled"
    /\ LET ev == Decoded[payload[r]] IN
       IF elapsed[r] >= StartToCloseTimeout
       THEN /\ pc' = [pc EXCEPT ![r] = "done"]
            /\ history' = [history EXCEPT
                             ![r] = Append(@, [Outcome("Timeout", 0, "") EXCEPT
                                                 !.at = elapsed[r]])]
            /\ result' = [result EXCEPT
                            ![r] = [kind |-> "Timeout", value |-> "",
                                    detail |-> Outcome("Timeout", 0, "")]]
            /\ UNCHANGED <<payload, attempt, elapsed, posted, responses, inflight>>
       ELSE IF ~ev.ok
       THEN /\ Conclude(r, Outcome("JSONDecodeError", 0, ""), 0)
            /\ UNCHANGED <<posted, responses, inflight>>
       ELSE IF ev.val.t # "obj"
       THEN /\ Conclude(r, Outcome("AttributeError", 0, ""), 0)
            /\ UNCHANGED <<posted, responses, inflight>>
       ELSE /\ pc' = [pc EXCEPT ![r] = "calling"]
            /\ posted' = [posted EXCEPT
                            ![r] = Append(@, Request(Dumps(GetData(ev.val)), elapsed[r]))]
            /\ inflight' = [inflight EXCEPT ![r] = @ + 1]
            /\ UNCHANGED <<payload, attempt, elapsed, history, responses, result>>

\* lines 28-33: decode, extract, and send the request
StartAttempt(r) ==
    /\ pc[r] = "scheduled"
    /\ LET ev == Decoded[payload[r]] IN
       IF ~ev.ok
       THEN /\ Conclude(r, Outcome("JSONDecodeError", 0, ""), 0)
            /\ UNCHANGED <<posted, responses, inflight>>
       ELSE IF ev.val.t # "obj"
       THEN /\ Conclude(r, Outcome("AttributeError", 0, ""), 0)
            /\ UNCHANGED <<posted, responses, inflight>>
       ELSE /\ pc' = [pc EXCEPT ![r] = "calling"]
            /\ posted' = [posted EXCEPT
                            ![r] = Append(@, Request(Dumps(GetData(ev.val)), elapsed[r]))]
            /\ inflight' = [inflight EXCEPT ![r] = @ + 1]
            /\ UNCHANGED <<payload, attempt, elapsed, history, responses, result>>

\* lines 33-45: the response arrives after d seconds
Respond(r, status, body, d) ==
    /\ pc[r] = "calling"
    /\ inflight' = [inflight EXCEPT ![r] = @ - 1]
    /\ responses' = [responses EXCEPT
                       ![r] = Append(@, [attempt |-> attempt[r], status |-> status,
                                         body |-> body])]
    /\ Conclude(r, Classify(status, body), d)
    /\ UNCHANGED posted

\* lines 32-37: client.post raises a transport error after d seconds
TransportError(r, cause, d) ==
    /\ pc[r] = "calling"
    /\ inflight' = [inflight EXCEPT ![r] = @ - 1]
    /\ Conclude(r, Outcome("TransportFailure", 0, cause), d)
    /\ UNCHANGED <<posted, responses>>

\* variant: an attempt is never timed out
AttemptTimeoutNever(r) ==
    /\ pc[r] = "calling"
    /\ FALSE
    /\ UNCHANGED vars

\* variant: the 30 s are counted from the start of the run
AttemptTimeoutFromRunStart(r) ==
    /\ pc[r] = "calling"
    /\ Conclude(r, Outcome("Timeout", 0, ""),
                IF elapsed[r] < StartToCloseTimeout
                THEN StartToCloseTimeout - elapsed[r] ELSE 0)
    /\ UNCHANGED <<posted, responses, inflight>>

\* line 57: the attempt is still awaiting its response when its 30 s are over;
\* the attempt is failed, the activity's own request is left behind
AttemptTimeout(r) ==
    /\ pc[r] = "calling"
    /\ Conclude(r, Outcome("Timeout", 0, ""), StartToCloseTimeout)
    /\ UNCHANGED <<posted, responses, inflight>>

\* variant: a retry interval longer than what is left of the run's first 30 s
\* is not waited, the run is timed out
RetryCapped(r) ==
    /\ pc[r] = "backoff"
    /\ IF BackoffFor(attempt[r]) > StartToCloseTimeout - elapsed[r]
       THEN /\ pc' = [pc EXCEPT ![r] = "done"]
            /\ result' = [result EXCEPT
                            ![r] = [kind |-> "Timeout", value |-> "",
                                    detail |-> history[r][Len(history[r])]]]
            /\ UNCHANGED <<elapsed, attempt>>
       ELSE /\ elapsed' = [elapsed EXCEPT ![r] = @ + BackoffFor(attempt[r])]
            /\ attempt' = [attempt EXCEPT ![r] = @ + 1]
            /\ pc' = [pc EXCEPT ![r] = "scheduled"]
            /\ result' = result
    /\ UNCHANGED <<payload, history, posted, responses, inflight>>

\* variant: one attempt counter shared by all runs
RetryShared(r) ==
    /\ pc[r] = "backoff"
    /\ elapsed' = [elapsed EXCEPT ![r] = @ + BackoffFor(attempt[r])]
    /\ attempt' = [s \in Runs |-> IF attempt[s] < MaximumAttempts
                                  THEN attempt[s] + 1 ELSE attempt[s]]
    /\ pc' = [pc EXCEPT ![r] = "scheduled"]
    /\ UNCHANGED <<payload, history, posted, responses, inflight, result>>

\* line 58: the retry interval is over, the next attempt is scheduled
Retry(r) ==
    /\ pc[r] = "backoff"
    /\ elapsed' = [elapsed EXCEPT ![r] = @ + BackoffFor(attempt[r])]
    /\ attempt' = [attempt EXCEPT ![r] = @ + 1]
    /\ pc' = [pc EXCEPT ![r] = "scheduled"]
    /\ UNCHANGED <<payload, history, posted, responses, inflight, result>>

\* a request left behind by a timed-out attempt ends (its response is dropped)
Orphans(r) == inflight[r] - (IF pc[r] = "calling" THEN 1 ELSE 0)

OrphanEnds(r) ==
    /\ Orphans(r) > 0
    /\ inflight' = [inflight EXCEPT ![r] = @ - 1]
    /\ UNCHANGED <<payload, pc, attempt, elapsed, history, posted, responses, result>>

Next ==
    \E r \in Runs :
        \/ StartAttempt(r)
        \/ \E s \in Statuses, b \in Bodies, d \in Latencies : Respond(r, s, b, d)
        \/ \E c \in TransportCauses, d \in Latencies : TransportError(r, c, d)
        \/ AttemptTimeout(r)
        \/ Retry(r)
        \/ OrphanEnds(r)

Spec == Init /\ [][Next]_vars

TypeOK ==
    \A r \in Runs :
        /\ pc[r] \in {"idle", "scheduled", "calling", "backoff", "done"}
        /\ attempt[r] \in 1..MaximumAttempts
        /\ inflight[r] \in 0..MaximumAttempts

(***************************************************************************)
(* Two runs at once, with fewer downstream behaviours                      *)
(***************************************************************************)
MultiPayloads == {PayloadData, PayloadNoData, PayloadTruncated}
MultiStatuses == {200, 500}
MultiLatencies == {StartToCloseTimeout - 1}

InitMulti ==
    /\ payload \in [Runs -> MultiPayloads]
    /\ pc = [r \in Runs |-> "scheduled"]
    /\ attempt = [r \in Runs |-> 1]
    /\ elapsed = [r \in Runs |-> 0]
    /\ history = [r \in Runs |-> <<>>]
    /\ posted = [r \in Runs |-> <<>>]
    /\ responses = [r \in Runs |-> <<>>]
    /\ inflight = [r \in Runs |-> 0]
    /\ result = [r \in Runs |-> NoResult]

NextMulti ==
    \E r \in Runs :
        \/ StartAttempt(r)
        \/ \E s \in MultiStatuses, d \in MultiLatencies : Respond(r, s, "ok", d)
        \/ \E d \in MultiLatencies : TransportError(r, "ConnectError", d)
        \/ AttemptTimeout(r)
        \/ Retry(r)
        \/ OrphanEnds(r)

SpecMulti == InitMulti /\ [][NextMulti]_vars

\* The worker runs an attempt that is scheduled, the retry timer fires, and
\* time advances: a call that does not return is ended by the attempt's
\* time-out.  Nothing is assumed of the downstream service.  One run, any
\* payload, the fewer downstream behaviours.
Fairness ==
    \A r \in Runs :
        /\ WF_vars(StartAttempt(r))
        /\ WF_vars(AttemptTimeout(r))
        /\ WF_vars(Retry(r))

FairSpec == Init /\ [][NextMulti]_vars /\ Fairness

(***************************************************************************)
(* Vocabulary of the properties                                            *)
(***************************************************************************)
Done(r) == pc[r] = "done"
Last(h) == h[Len(h)]
Kinds(r) == {history[r][k].kind : k \in 1..Len(history[r])}
Retryable == {"HTTPFailure", "TransportFailure"}
\* the run went on to a further attempt after its attempt k
RetriedAfter(r, k) == attempt[r] > k \/ (k = Len(history[r]) /\ pc[r] = "backoff")
\* the run's 30th second fell into the wait that followed attempt k
DeadlineInWait(r, k) ==
    /\ k \in 1..Len(history[r])
    /\ attempt[r] > k
    /\ history[r][k].at < StartToCloseTimeout
    /\ history[r][k].at + BackoffFor(k) >= StartToCloseTimeout

(***************************************************************************)
(* Properties                                                              *)
(***************************************************************************)
\* C1: a finished run all of whose attempts produced HTTPFailure made exactly
\* MaximumAttempts = 3 attempts and 3 downstream calls and ended as
\* Failed(RetriesExhausted); while it is not finished it has made fewer.
C1_AlwaysFailingRunExhausts ==
    \A r \in Runs :
        (history[r] # <<>> /\ Kinds(r) = {"HTTPFailure"}) =>
            /\ Len(history[r]) <= 3
            /\ Len(posted[r]) <= 3
            /\ Done(r) <=> Len(history[r]) = MaximumAttempts
            /\ Done(r) => /\ Len(posted[r]) = 3
                          /\ attempt[r] = 3
                          /\ result[r].kind = "RetriesExhausted"
                          /\ result[r].detail.kind = "HTTPFailure"

C1_Witness ==
    \E r \in Runs :
        /\ Done(r)
        /\ Kinds(r) = {"HTTPFailure"}
        /\ Len(posted[r]) = 3
        /\ \A k \in 1..3 : history[r][k].status = 500

\* C2: once the first attempt has returned Success the run is Completed with
\* that body, has made one attempt and one downstream call, and has not
\* waited: its elapsed time is the duration of that one call.
C2_FirstSuccessCompletes ==
    \A r \in Runs :
        (history[r] # <<>> /\ history[r][1].kind = "Success") =>
            /\ Done(r)
            /\ attempt[r] = 1
            /\ Len(history[r]) = 1
            /\ Len(posted[r]) = 1
            /\ inflight[r] = 0
            /\ elapsed[r] = history[r][1].at
            /\ result[r].kind = "Completed"
            /\ result[r].value = history[r][1].body

C2_Witness ==
    \E r \in Runs :
        /\ Done(r)
        /\ history[r][1].kind = "Success"
        /\ history[r][1].status = 200
        /\ result[r].value = "ok"
        /\ Loads(payload[r]).ok

C5_ResultStates ==
    \A r \in Runs :
        /\ Done(r) <=> result[r] # NoResult
        /\ Done(r) =>
              LET o == Last(history[r]) IN
              /\ result[r].kind \in {"Completed", "Timeout", "RetriesExhausted", "Fatal"}
              /\ result[r].kind = "Completed" <=> o.kind = "Success"
              /\ result[r].kind = "Completed" => result[r].value = o.body
              /\ result[r].kind = "Timeout" <=> o.kind = "Timeout"
              /\ result[r].kind # "Completed" =>
                    (Len(history[r]) = MaximumAttempts /\ result[r].detail = o)
              /\ \A k \in 1..(Len(history[r]) - 1) : history[r][k].kind # "Success"

C5_Absorbing ==
    \A r \in Runs :
        Done(r) => /\ pc'[r] = "done"
                   /\ result'[r] = result[r]
                   /\ attempt'[r] = attempt[r]
                   /\ history'[r] = history[r]
                   /\ posted'[r] = posted[r]
                   /\ elapsed'[r] = elapsed[r]

C5_ResultExactlyOnce == [](C5_ResultStates) /\ [][C5_Absorbing]_vars

C5_Witness ==
    \E r \in Runs :
        /\ Done(r)
        /\ Len(history[r]) = 2
        /\ history[r][1].kind = "HTTPFailure"
        /\ result[r].kind = "Completed"

\* C6 as stated: a run never has more than one downstream call outstanding,
\* a call left behind by a timed-out attempt included.
C6_OneOutstandingCall ==
    \A r \in Runs : inflight[r] <= 1

\* C7: a step changes the state of one run only, and the result of a
\* finished run is the result of a run that is alone with the same payload
\* and meets the same downstream behaviour on each of its attempts.
RunState(r) ==
    <<payload[r], pc[r], attempt[r], elapsed[r], history[r], posted[r],
      responses[r], inflight[r], result[r]>>

\* what the downstream did on attempt k of run r
Downstream(r, k) ==
    IF \E i \in 1..Len(responses[r]) : responses[r][i].attempt = k
    THEN LET i == CHOOSE j \in 1..Len(responses[r]) : responses[r][j].attempt = k
         IN [ev |-> "response", status |-> responses[r][i].status,
             body |-> responses[r][i].body]
    ELSE [ev |-> IF history[r][k].kind = "Timeout" THEN "silent" ELSE "refused",
          status |-> 0, body |-> history[r][k].body]

RECURSIVE Alone(_, _, _)
Alone(p, ds, n) ==
    LET ev == Loads(p)
        d == ds[n]
        k == IF ~ev.ok THEN "JSONDecodeError"
             ELSE IF ev.val.t # "obj" THEN "AttributeError"
             ELSE IF d.ev = "silent" THEN "Timeout"
             ELSE IF d.ev = "refused" THEN "TransportFailure"
             ELSE IF d.status < 400 THEN "Success" ELSE "HTTPFailure"
    IN IF k = "Success" THEN <<"Completed", d.body, n>>
       ELSE IF n < 3 /\ n < Len(ds) THEN Alone(p, ds, n + 1)
       ELSE <<IF k = "Timeout" THEN "Timeout" ELSE "RetriesExhausted", k, n>>

C7_ResultAsAlone ==
    \A r \in Runs :
        Done(r) =>
            LET ds == [k \in 1..Len(history[r]) |-> Downstream(r, k)]
                a == Alone(payload[r], ds, 1)
            IN /\ a[1] = result[r].kind
               /\ a[2] = IF result[r].kind = "Completed" THEN result[r].value
                         ELSE result[r].detail.kind
               /\ a[3] = Len(history[r])
               /\ (a[1] # "Completed") => Len(history[r]) = 3

C7_Frame ==
    \A r \in Runs, s \in Runs :
        (r # s /\ RunState(r)' # RunState(r)) => RunState(s)' = RunState(s)

C7_RunsIndependent == [](C7_ResultAsAlone) /\ [][C7_Frame]_vars

\* both runs finished, differently, after their steps interleaved
C7_Witness ==
    /\ Done("r1") /\ Done("r2")
    /\ result["r1"].kind = "Completed"
    /\ result["r2"].kind = "RetriesExhausted"
    /\ Len(history["r1"]) = 2
    /\ Len(posted["r2"]) = 3

\* C8: the outcome of an attempt that received a response is Success with
\* the response's body when the status is below 400 and HTTPFailure with the
\* response's status and body when it is 400 or more; an attempt whose call
\* raised a transport error has outcome TransportFailure with its cause; a
\* Success ends the run with that body as its value.
C8_Classification ==
    \A r \in Runs :
        /\ \A i \in 1..Len(responses[r]) :
              LET rs == responses[r][i]
                  o == history[r][rs.attempt]
              IN /\ o.body = rs.body
                 /\ o.status = rs.status
                 /\ rs.status < 400 <=> o.kind = "Success"
                 /\ rs.status >= 400 <=> o.kind = "HTTPFailure"
                 /\ o.kind = "Success" => result[r].value = rs.body
        /\ \A k \in 1..Len(history[r]) :
              /\ history[r][k].kind \in {"Success", "HTTPFailure"} <=>
                    \E i \in 1..Len(responses[r]) : responses[r][i].attempt = k
              /\ history[r][k].kind = "TransportFailure" =>
                    history[r][k].body \in TransportCauses

\* 400 failed on the first attempt, 399 succeeded on the second
C8_Witness ==
    \E r \in Runs :
        /\ Len(responses[r]) = 2
        /\ responses[r][1].status = 400 /\ history[r][1].kind = "HTTPFailure"
        /\ responses[r][2].status = 399 /\ history[r][2].kind = "Success"
        /\ result[r].value = responses[r][2].body

\* C9: the body of every request is JSON text; decoded, it is the value of
\* the data member of the decoded payload (the last one when the member is
\* repeated), or the empty mapping when the payload has no data member.
\* With a payload that decodes to a mapping no attempt fails in decoding or
\* extracting.
DataMembers(env) == {i \in 1..Len(env.kids) : env.kids[i][1] = "data"}

OriginalData(env) ==
    IF DataMembers(env) = {} THEN EmptyObj
    ELSE env.kids[CHOOSE i \in DataMembers(env) : TRUE][2]

IsEnvelope(p) == Loads(p).ok /\ Loads(p).val.t = "obj"

C9_DataRoundTrip ==
    \A r \in Runs :
        /\ \A i \in 1..Len(posted[r]) :
              LET back == Loads(posted[r][i].content) IN
              /\ IsEnvelope(payload[r])
              /\ back.ok
              /\ back.val = OriginalData(Loads(payload[r]).val)
        /\ IsEnvelope(payload[r]) =>
              /\ Kinds(r) \cap {"JSONDecodeError", "AttributeError"} = {}
              /\ Len(posted[r]) = Len(history[r]) + IF pc[r] = "calling" THEN 1 ELSE 0

\* a request was sent for the payload with nested data
C9_Witness ==
    \E r \in Runs :
        /\ payload[r] = PayloadNested
        /\ Len(posted[r]) >= 1
        /\ Loads(posted[r][1].content).val.t = "arr"
        /\ Len(Loads(posted[r][1].content).val.kids) = 3

AttemptStart(r, k) ==
    IF k = 1 THEN 0 ELSE history[r][k - 1].at + BackoffFor(k - 1)

C12_WaitStates ==
    \A r \in Runs :
        /\ pc[r] = "backoff" =>
              /\ result[r] = NoResult
              /\ attempt[r] = Len(history[r])
              /\ elapsed[r] = Last(history[r]).at
        /\ (history[r] # <<>> /\ Len(history[r]) < MaximumAttempts
            /\ Last(history[r]).kind # "Success") =>
              \/ pc[r] = "backoff"
              \/ /\ pc[r] \in {"scheduled", "calling"}
                 /\ attempt[r] = Len(history[r]) + 1

C12_WaitStep ==
    \A r \in Runs :
        (pc[r] = "backoff" /\ pc'[r] # "backoff") =>
            /\ pc'[r] = "scheduled"
            /\ attempt'[r] = attempt[r] + 1
            /\ elapsed'[r] = elapsed[r] + (IF attempt[r] = 1 THEN 1 ELSE 2)
            /\ result'[r] = NoResult

CallOpenAtDeadline(r, k) ==
    /\ k \in 1..Len(history[r])
    /\ k <= Len(posted[r])
    /\ posted[r][k].at < StartToCloseTimeout
    /\ history[r][k].at >= StartToCloseTimeout

C13_InFlightCallCancelledAtDeadline ==
    \A r \in Runs : \A k \in 1..Len(history[r]) :
        CallOpenAtDeadline(r, k) =>
            /\ Done(r)
            /\ Len(history[r]) = k
            /\ result[r].kind = "Timeout"
            /\ inflight[r] = 0

C14_ElapsedStates ==
    \A r \in Runs :
        /\ (attempt[r] = 1 /\ history[r] = <<>>) => elapsed[r] = 0
        /\ history[r] = <<>> => attempt[r] = 1
        /\ elapsed[r] <= 93
        /\ \A k \in 1..Len(history[r]) :
              /\ history[r][k].at >= AttemptStart(r, k)
              /\ history[r][k].at - AttemptStart(r, k) <= 30
              /\ history[r][k].kind = "Timeout" <=>
                    history[r][k].at - AttemptStart(r, k) = 30
              /\ history[r][k].at <= elapsed[r]

C14_ElapsedStep ==
    \A r \in Runs : elapsed'[r] >= elapsed[r] /\ attempt'[r] >= attempt[r]

DecodeError(p) ==
    IF ~Loads(p).ok THEN "JSONDecodeError"
    ELSE IF Loads(p).val.t # "obj" THEN "AttributeError" ELSE "None"

C16_SuccessAfterFailures ==
    \A r \in Runs :
        (history[r] # <<>> /\ Last(history[r]).kind = "Success") =>
            LET k == Len(history[r]) IN
            /\ Done(r)
            /\ attempt[r] = k
            /\ Len(posted[r]) = k
            /\ \A j \in 1..(k - 1) : history[r][j].kind \in Retryable \cup {"Timeout"}
            /\ Last(responses[r]).attempt = k
            /\ result[r].kind = "Completed"
            /\ result[r].value = Last(responses[r]).body
            /\ result[r].detail = NoOutcome

\* the third attempt succeeded with status 399 after two different failures
C16_Witness ==
    \E r \in Runs :
        /\ Done(r)
        /\ Len(history[r]) = 3
        /\ history[r][1].kind = "HTTPFailure" /\ history[r][1].body = "err"
        /\ history[r][2].kind = "TransportFailure"
        /\ responses[r][2].status = 399 /\ responses[r][2].body = "ok"
        /\ result[r].value = "ok"

\* C17: the detail of a run that ended as RetriesExhausted is the outcome of
\* its attempt number MaximumAttempts; when that attempt received a
\* response, the detail has the status and the body of that response.
C17_DetailOfLastAttempt ==
    \A r \in Runs :
        (Done(r) /\ result[r].kind = "RetriesExhausted") =>
            /\ Len(history[r]) = 3
            /\ attempt[r] = 3
            /\ result[r].detail = history[r][3]
            /\ result[r].detail.kind # "Success"
            /\ \A i \in 1..Len(responses[r]) :
                  responses[r][i].attempt = 3 =>
                      /\ result[r].detail.kind = "HTTPFailure"
                      /\ result[r].detail.status = responses[r][i].status
                      /\ result[r].detail.body = responses[r][i].body

\* three attempts failed with 400 "ok", a transport error and 500 "err"
C17_Witness ==
    \E r \in Runs :
        /\ Done(r)
        /\ result[r].kind = "RetriesExhausted"
        /\ history[r][1].status = 400 /\ history[r][1].body = "ok"
        /\ history[r][2].kind = "TransportFailure"
        /\ result[r].detail.status = 500 /\ result[r].detail.body = "err"

\* C18: every run that was started eventually is finished, whatever its
\* payload and whatever the downstream service does, a call that never
\* returns and a service that fails on every call included.
C18_RunTerminates ==
    \A r \in Runs : (pc[r] = "scheduled" /\ attempt[r] = 1) ~> Done(r)

\* a run is finished although none of its three calls ever returned
C18_Witness ==
    \E r \in Runs :
        /\ Done(r)
        /\ Kinds(r) = {"Timeout"}
        /\ responses[r] = <<>>
        /\ Len(posted[r]) = 3

\* C19: attemptNumber is always between 1 and MaximumAttempts = 3, and the
\* number of downstream calls a run has made is never more than its
\* attemptNumber, time-outs included.
C19_AttemptAndCallBounds ==
    \A r \in Runs :
        /\ 1 <= attempt[r]
        /\ attempt[r] <= 3
        /\ attempt[r] <= MaximumAttempts
        /\ Len(posted[r]) <= attempt[r]
        /\ Len(history[r]) <= attempt[r]
        /\ inflight[r] <= Len(posted[r])

\* three calls were made, two of them by attempts that timed out
C19_Witness ==
    \E r \in Runs :
        /\ attempt[r] = 3
        /\ Len(posted[r]) = 3
        /\ history[r][1].kind = "Timeout"
        /\ history[r][2].kind = "Timeout"
        /\ pc[r] = "calling"

\* C20: every request of a run has the serialisation of the data member of
\* the run's payload as its body, the same URL and the same Content-Type
\* header, whatever the outcomes of the attempts before it; no step changes
\* the payload of a run.
C20_Requests ==
    \A r \in Runs : \A i \in 1..Len(posted[r]) :
        /\ posted[r][i].content = Dumps(OriginalData(Loads(payload[r]).val))
        /\ posted[r][i].content = posted[r][1].content
        /\ posted[r][i].url = "http://localhost:3500/link/echo"
        /\ posted[r][i].headers = <<"Content-Type", "application/json">>

C20_PayloadKept == \A r \in Runs : payload'[r] = payload[r]

C20_SameRequestEveryAttempt == [](C20_Requests) /\ [][C20_PayloadKept]_vars

\* a third request was sent after failures with different response texts
C20_Witness ==
    \E r \in Runs :
        /\ Len(posted[r]) = 3
        /\ payload[r] = PayloadData
        /\ history[r][1].kind = "HTTPFailure" /\ history[r][1].body = "ok"
        /\ history[r][2].kind = "HTTPFailure" /\ history[r][2].body = "err"
        /\ posted[r][3].content = <<"{", "a", ":", " ", "1", "}">>

====
